---- MODULE Spec2Model ----
(***************************************************************************)
(* The OCI artifact fetcher of wasmcloud-core (crates/core/src/oci.rs):    *)
(* OciFetcher::fetch_path, fetch_component, cache_oci_image,               *)
(* prune_filepath and oci_cache_dir, run as fetch calls against a          *)
(* registry and a file system.                                             *)
(*                                                                         *)
(* Strings are sequences of one-character strings; file contents and       *)
(* digests are sequences of bytes (Rust strings are UTF-8 byte sequences). *)
(* Option<T> is <<>> (None) or <<x>> (Some(x)).                            *)
(***************************************************************************)
EXTENDS Integers, Sequences, FiniteSets, TLC

VARIABLES
    fs,        \* the file system: path -> bytes, defined on the files that exist
    dirs,      \* the directories that exist
    pc,        \* per fetch call: the await point the call is suspended at
    inp,       \* per fetch call: the fetcher (self) and the arguments
    loc,       \* per fetch call: the local variables of fetch_path
    trace,     \* per fetch call: the network calls and file writes it has made
    result,    \* per fetch call: what the call returned
    answers    \* paired calls: await point -> what the outside world answered there

vars == <<fs, dirs, pc, inp, loc, trace, result, answers>>

\* ------------------------------------------------------------------ bounds

\* The number of fetch calls of one behaviour.
MaxCalls == 2

Calls == 1..MaxCalls

\* The largest number of bytes one write to a file takes.
MaxChunk == 2

\* the longest of the enumerated reference strings
MaxNameLen == 3

\* ------------------------------------------------------------- strings

None == <<>>

Some(x) == <<x>>

UpperChars == <<"A","B","C","D","E","F","G","H","I","J","K","L","M",
                "N","O","P","Q","R","S","T","U","V","W","X","Y","Z">>

LowerChars == <<"a","b","c","d","e","f","g","h","i","j","k","l","m",
                "n","o","p","q","r","s","t","u","v","w","x","y","z">>

\* char::to_lowercase on ASCII
LowerChar(c) ==
    IF \E i \in DOMAIN UpperChars : UpperChars[i] = c
    THEN LowerChars[CHOOSE i \in DOMAIN UpperChars : UpperChars[i] = c]
    ELSE c

\* str::to_lowercase
ToLowercase(s) == [i \in DOMAIN s |-> LowerChar(s[i])]

\* str::ends_with
EndsWith(s, suffix) ==
    /\ Len(s) >= Len(suffix)
    /\ SubSeq(s, Len(s) - Len(suffix) + 1, Len(s)) = suffix

\* str::replace(from, to) for a one-character pattern
Replace(s, from, to) == [i \in DOMAIN s |-> IF s[i] = from THEN to ELSE s[i]]

LatestTag == <<":","l","a","t","e","s","t">>

\* the '.' is not replaced
PruneFilepathKeepsDots(img) == Replace(Replace(img, ":", "_"), "/", "_")

\* fn prune_filepath
PruneFilepath(img) == Replace(Replace(Replace(img, ":", "_"), "/", "_"), ".", "_")

\* the index of the last c in s, 0 when there is none
LastIndexOf(s, c) ==
    IF \E i \in DOMAIN s : s[i] = c
    THEN CHOOSE i \in DOMAIN s : s[i] = c /\ \A j \in DOMAIN s : s[j] = c => j <= i
    ELSE 0

\* the index of the first c in s, 0 when there is none
FirstIndexOf(s, c) ==
    IF \E i \in DOMAIN s : s[i] = c
    THEN CHOOSE i \in DOMAIN s : s[i] = c /\ \A j \in DOMAIN s : s[j] = c => j >= i
    ELSE 0

DigestExtension == <<"d","i","g","e","s","t">>

\* PathBuf::set_extension on a file name: the text after the last '.' (when the
\* '.' is not the first character) is replaced, otherwise ".ext" is appended
SetExtension(name, ext) ==
    LET dot == LastIndexOf(name, ".")
    IN  IF dot > 1
        THEN SubSeq(name, 1, dot) \o ext
        ELSE name \o <<".">> \o ext

\* Path::join(output_dir, file name)
Join(dir, name) == <<dir, name>>

CacheFile(output_dir, img) == Join(output_dir, PruneFilepath(img))

DigestFile(output_dir, img) ==
    Join(output_dir, SetExtension(PruneFilepath(img), DigestExtension))

\* ------------------------------------------------------- the reference

\* Reference::from_str (oci_distribution) on a normalized reference of the form
\* registry/repository[:tag]: None when the text is not of that form, otherwise
\* the parsed reference; registry() is the text before the first '/'.
ParseReference(img) ==
    LET slash == FirstIndexOf(img, "/")
        host  == SubSeq(img, 1, slash - 1)
        rest  == SubSeq(img, slash + 1, Len(img))
        colon == FirstIndexOf(rest, ":")
        repo  == IF colon = 0 THEN rest ELSE SubSeq(rest, 1, colon - 1)
        tag   == IF colon = 0 THEN <<>> ELSE SubSeq(rest, colon + 1, Len(rest))
    IN  IF \/ slash <= 1
           \/ repo = <<>>
           \/ (colon > 0 /\ tag = <<>>)
        THEN None
        ELSE Some([registry |-> host, repository |-> repo, tag |-> tag])

\* ------------------------------------------------------------ the policy

\* the reference is used as given, not lowercased
NormalizeRefKeepsCase(img) == img

\* let img = img.as_ref().to_lowercase()
NormalizeRef(img) == ToLowercase(img)

\* a fetcher that prohibits latest tags takes every tagged reference for one
LatestProhibitedAnyTag(self, img) ==
    ~self.allow_latest /\ \E i \in DOMAIN img : img[i] = ":"

\* !self.allow_latest && img.ends_with(":latest")
LatestProhibited(self, img) == ~self.allow_latest /\ EndsWith(img, LatestTag)

\* ClientProtocol: the set of hosts the client may reach over plain HTTP;
\* Https is the empty set, HttpsExcept(hosts) is hosts
Https == {}

HttpsExcept(hosts) == hosts

\* ClientProtocol::Http: every host
Http == {<<"r", ".", "x">>, <<"s", ".", "x">>}

\* insecure access is allowed for every host
ProtocolHttp(self, reference) == IF self.allow_insecure THEN Http ELSE Https

Protocol(self, reference) ==
    IF self.allow_insecure THEN HttpsExcept({reference.registry}) ELSE Https

\* the CA files that can be read and decoded
ReadableCaPaths == {"ca.pem"}

\* tls::load_certs_from_paths: fails when a path cannot be read or decoded
LoadCertsFails(paths) == \E i \in DOMAIN paths : paths[i] \notin ReadableCaPaths

\* ---------------------------------------------------------- the artifacts

WASM_MANIFEST_MEDIA_TYPE == "application/vnd.oci.image.manifest.v1+json"

DOCKER_MANIFEST_MEDIA_TYPE == "application/vnd.docker.distribution.manifest.v2+json"

DigestAbc == <<97, 98, 99>>

DigestDef == <<100, 101, 102>>

\* ImageData { layers, digest, manifest } as pull returns it
ImageData(media_type, digest, layers) ==
    [manifest |-> media_type, digest |-> digest, layers |-> layers]

\* What the registry serves: the image a pull returns and the digest a
\* manifest-only fetch reports.
Artifact(image, digest) == [image |-> image, digest |-> digest]

Widget1 ==
    Artifact(ImageData(Some([media_type |-> Some(WASM_MANIFEST_MEDIA_TYPE)]),
                       Some(DigestAbc), << <<1, 2>> >>), DigestAbc)

Widget2 ==
    Artifact(ImageData(Some([media_type |-> Some(WASM_MANIFEST_MEDIA_TYPE)]),
                       Some(DigestDef), << <<3, 4>> >>), DigestDef)

TwoLayerWasm ==
    Artifact(ImageData(Some([media_type |-> Some(WASM_MANIFEST_MEDIA_TYPE)]),
                       Some(DigestDef), << <<3>>, <<4>> >>), DigestDef)

ZeroLayerWasm ==
    Artifact(ImageData(Some([media_type |-> Some(WASM_MANIFEST_MEDIA_TYPE)]),
                       Some(DigestDef), << >>), DigestDef)

TwoEmptyLayersWasm ==
    Artifact(ImageData(Some([media_type |-> Some(WASM_MANIFEST_MEDIA_TYPE)]),
                       Some(DigestDef), << <<>>, <<>> >>), DigestDef)

TwoLayerDocker ==
    Artifact(ImageData(Some([media_type |-> Some(DOCKER_MANIFEST_MEDIA_TYPE)]),
                       Some(DigestDef), << <<3>>, <<4>> >>), DigestDef)

TwoLayerNoMediaType ==
    Artifact(ImageData(Some([media_type |-> None]),
                       Some(DigestDef), << <<3>>, <<4>> >>), DigestDef)

TwoLayerNoManifest ==
    Artifact(ImageData(None, Some(DigestDef), << <<3>>, <<4>> >>), DigestDef)

NoDigestWasm ==
    Artifact(ImageData(Some([media_type |-> Some(WASM_MANIFEST_MEDIA_TYPE)]),
                       None, << <<3, 4>> >>), DigestDef)

EmptyDigestWasm ==
    Artifact(ImageData(Some([media_type |-> Some(WASM_MANIFEST_MEDIA_TYPE)]),
                       Some(<<>>), << <<3, 4>> >>), <<>>)

Artifacts ==
    {Widget1, Widget2, TwoLayerWasm, TwoEmptyLayersWasm, ZeroLayerWasm, TwoLayerDocker,
     TwoLayerNoMediaType, TwoLayerNoManifest, NoDigestWasm, EmptyDigestWasm}

RECURSIVE Concat(_)
\* the concatenation of the byte sequences of layers, in order
Concat(layers) ==
    IF layers = <<>> THEN <<>> ELSE Head(layers) \o Concat(Tail(layers))

RECURSIVE Reverse(_)
Reverse(seq) == IF seq = <<>> THEN <<>> ELSE Append(Reverse(Tail(seq)), Head(seq))

\* the layers are concatenated last to first
ContentReversed(image) == Concat(Reverse(image.layers))

\* let content = image.layers.into_iter().flat_map(|l| l.data).collect()
Content(image) == Concat(image.layers)

\* imgdata.manifest.as_ref().map(|m| m.media_type.as_deref().unwrap_or_default()
\*     == WASM_MANIFEST_MEDIA_TYPE).unwrap_or(false) && imgdata.layers.len() > 1
IsWasmManifest(image) ==
    /\ image.manifest # None
    /\ image.manifest[1].media_type # None
    /\ image.manifest[1].media_type[1] = WASM_MANIFEST_MEDIA_TYPE

\* every artifact of two or more layers is invalid, whatever its media type
InvalidArtifactAnyType(image) == Len(image.layers) > 1

InvalidArtifact(image) == IsWasmManifest(image) /\ Len(image.layers) > 1

\* two empty digests count as equal
CacheHitIgnoresEmpty(oci_digest, file_digest) == file_digest = oci_digest

\* the comparison of the two digests is inverted
CacheHitInverted(oci_digest, file_digest) ==
    oci_digest # <<>> /\ file_digest # <<>> /\ file_digest # oci_digest

\* !oci_digest.is_empty() && !file_digest.is_empty() && file_digest == oci_digest
CacheHit(oci_digest, file_digest) ==
    oci_digest # <<>> /\ file_digest # <<>> /\ file_digest = oci_digest

\* ------------------------------------------------------ the outside world

\* What the outside world answers at one await point of a call: whether the
\* registry can be reached and the artifact it serves, whether the file
\* system operation succeeds, and how many bytes one write takes.
Env(up, serving, diskOk, chunk) ==
    [up |-> up, serving |-> serving, diskOk |-> diskOk, chunk |-> chunk]

\* the answers to a file-system operation
DiskEnvs == {Env(TRUE, Widget1, ok, 1) : ok \in BOOLEAN}

\* the answers to a write: it fails, or takes the first chunk bytes
WriteEnvs(len) == {Env(TRUE, Widget1, FALSE, 1)} \cup {Env(TRUE, Widget1, TRUE, n) : n \in 1..len}

\* the answers to a network call: the registry is down, or serves one of arts
NetEnvs(arts) == {Env(FALSE, Widget1, TRUE, 1)} \cup {Env(TRUE, a, TRUE, 1) : a \in arts}

\* --------------------------------------------------------- the file system

Exists(path) == path \in DOMAIN fs

\* a write of data at offset off of a file: the file grows as needed, a gap
\* left by a truncation reads as zero bytes
WriteAt(file, off, data) ==
    LET end == off + Len(data)
        len == IF Len(file) > end THEN Len(file) ELSE end
    IN  [i \in 1..len |->
            IF i > off /\ i <= end THEN data[i - off]
            ELSE IF i <= Len(file) THEN file[i] ELSE 0]

\* String::from_utf8 accepts the bytes
Utf8Valid(bytes) == \A i \in DOMAIN bytes : bytes[i] < 128

\* fs::read_to_string(path).await
ReadToString(path, env) ==
    IF env.diskOk /\ Exists(path) /\ Utf8Valid(fs[path]) THEN Some(fs[path]) ELSE None

\* Result::unwrap_or_default for a string
UnwrapOrDefault(r) == IF r = None THEN <<>> ELSE r[1]

\* File::create(path): the file exists and is empty afterwards
Truncated(path) == [p \in DOMAIN fs \cup {path} |-> IF p = path THEN <<>> ELSE fs[p]]

\* temp_dir().join("wasmcloud_ocicache")
CacheRoot == "tmp/wasmcloud_ocicache"

\* ------------------------------------------------------- the fetch calls

\* enum OciArtifactCacheUpdate
Ignore == "Ignore"

Update == "Update"

\* struct OciFetcher (auth is passed through to the client unchanged)
OciFetcher(additional_ca_paths, allow_latest, allow_insecure) ==
    [additional_ca_paths |-> additional_ca_paths,
     allow_latest |-> allow_latest,
     allow_insecure |-> allow_insecure]

\* impl Default for OciFetcher
DefaultFetcher == OciFetcher(<<>>, FALSE, FALSE)

NoInput ==
    [op |-> "none", self |-> DefaultFetcher, output_dir |-> "", img |-> <<>>,
     cache |-> Ignore]

NoPath == <<"", <<>>>>

NoLocals ==
    [img |-> <<>>, cache_file |-> NoPath, digest_file |-> NoPath,
     registry |-> <<>>, protocol |-> Https, existed |-> FALSE,
     oci_digest |-> <<>>, file_digest |-> <<>>, imgdata |-> None,
     content |-> <<>>, written |-> 0]

NoResult == [kind |-> "none", path |-> NoPath, bytes |-> None]

Ok(path, bytes) == [kind |-> "Ok", path |-> path, bytes |-> bytes]

Err(kind) == [kind |-> kind, path |-> NoPath, bytes |-> None]

\* One network call or file operation of a fetch call: the operation, the
\* registry host or the file name it is aimed at, the bytes written or read or
\* the manifest digest the registry reported, the hosts the client may reach
\* over plain HTTP, and whether it succeeded.
Event(op, target, data, plain, ok) ==
    [op |-> op, target |-> target, data |-> data, plain |-> plain, ok |-> ok]

Goto(c, label) == pc' = [pc EXCEPT ![c] = label]

Record(c, event) == trace' = [trace EXCEPT ![c] = Append(@, event)]

\* the call returns r to its caller
Finish(c, r) ==
    /\ pc' = [pc EXCEPT ![c] = "done"]
    /\ result' = [result EXCEPT ![c] = r]

\* fetch_path returns Ok(cache_file): fetch_path's caller has the path,
\* fetch_component goes on to read it
ReturnPath(c) ==
    IF inp[c].op = "fetch_component"
    THEN Goto(c, "read") /\ UNCHANGED result
    ELSE Finish(c, Ok(loc[c].cache_file, None))

\* a caller calls fetch_path(output_dir, img, accepted_media_types, cache)
FetchPath(c, self, output_dir, img, cache) ==
    /\ pc[c] = "idle"
    /\ inp' = [inp EXCEPT ![c] =
                  [op |-> "fetch_path", self |-> self, output_dir |-> output_dir,
                   img |-> img, cache |-> cache]]
    /\ Goto(c, "begin")
    /\ UNCHANGED <<fs, dirs, loc, trace, result>>

\* a caller calls fetch_component(oci_ref): fetch_path(oci_cache_dir().await?,
\* oci_ref, .., OciArtifactCacheUpdate::Update)
FetchComponent(c, self, oci_ref) ==
    /\ pc[c] = "idle"
    /\ inp' = [inp EXCEPT ![c] =
                  [op |-> "fetch_component", self |-> self, output_dir |-> CacheRoot,
                   img |-> oci_ref, cache |-> Update]]
    /\ Goto(c, "cache_dir")
    /\ UNCHANGED <<fs, dirs, loc, trace, result>>

\* oci_cache_dir: try_exists, then create_dir_all when the directory is missing
OciCacheDir(c, env) ==
    /\ pc[c] = "cache_dir"
    /\ IF env.diskOk
       THEN /\ dirs' = dirs \cup {CacheRoot}
            /\ Goto(c, "begin")
            /\ UNCHANGED result
       ELSE /\ Finish(c, Err("CacheIoError"))
            /\ UNCHANGED dirs
    /\ UNCHANGED <<fs, inp, loc, trace>>

\* fetch_path up to the first await, going on with the certificates that did
\* load when some did not
BeginPartialTrust(c) ==
    /\ pc[c] = "begin"
    /\ LET self == inp[c].self
           img == NormalizeRef(inp[c].img)
           reference == ParseReference(img)
       IN  IF LatestProhibited(self, img)
           THEN Finish(c, Err("PolicyViolation")) /\ UNCHANGED loc
           ELSE IF reference = None
           THEN Finish(c, Err("InvalidReference")) /\ UNCHANGED loc
           ELSE /\ loc' = [loc EXCEPT ![c] =
                              [@ EXCEPT !.img = img,
                                        !.cache_file = CacheFile(inp[c].output_dir, img),
                                        !.digest_file = DigestFile(inp[c].output_dir, img),
                                        !.registry = reference[1].registry,
                                        !.protocol = Protocol(self, reference[1])]]
                /\ Goto(c, "metadata")
                /\ UNCHANGED result
    /\ UNCHANGED <<fs, dirs, inp, trace>>

\* fetch_path up to the first await: normalization, the latest-tag policy, the
\* cache paths, the parse, the protocol, the certificates, the client
Begin(c) ==
    /\ pc[c] = "begin"
    /\ LET self == inp[c].self
           img == NormalizeRef(inp[c].img)
           reference == ParseReference(img)
       IN  IF LatestProhibited(self, img)
           THEN Finish(c, Err("PolicyViolation")) /\ UNCHANGED loc
           ELSE IF reference = None
           THEN Finish(c, Err("InvalidReference")) /\ UNCHANGED loc
           ELSE IF self.additional_ca_paths # <<>>
                   /\ LoadCertsFails(self.additional_ca_paths)
           THEN Finish(c, Err("CertLoadError")) /\ UNCHANGED loc
           ELSE /\ loc' = [loc EXCEPT ![c] =
                              [@ EXCEPT !.img = img,
                                        !.cache_file = CacheFile(inp[c].output_dir, img),
                                        !.digest_file = DigestFile(inp[c].output_dir, img),
                                        !.registry = reference[1].registry,
                                        !.protocol = Protocol(self, reference[1])]]
                /\ Goto(c, "metadata")
                /\ UNCHANGED result
    /\ UNCHANGED <<fs, dirs, inp, trace>>

\* fs::metadata(&cache_file).await.is_ok()
Metadata(c) ==
    /\ pc[c] = "metadata"
    /\ LET existed == Exists(loc[c].cache_file)
       IN  /\ loc' = [loc EXCEPT ![c].existed = existed]
           /\ Goto(c, IF existed THEN "pull_manifest" ELSE "pull")
    /\ UNCHANGED <<fs, dirs, inp, trace, result>>

\* a failed manifest-only fetch falls back to the full pull
PullManifestFallsBack(c, env) ==
    /\ pc[c] = "pull_manifest"
    /\ IF env.up
       THEN /\ Record(c, Event("pull_manifest", loc[c].registry, env.serving.digest,
                               loc[c].protocol, TRUE))
            /\ loc' = [loc EXCEPT ![c].oci_digest = env.serving.digest]
            /\ Goto(c, "read_digest")
            /\ UNCHANGED result
       ELSE /\ Record(c, Event("pull_manifest", loc[c].registry, <<>>,
                               loc[c].protocol, FALSE))
            /\ Goto(c, "pull")
            /\ UNCHANGED <<loc, result>>
    /\ UNCHANGED <<fs, dirs, inp>>

\* c.pull_manifest(&img, &self.auth).await.context("failed to fetch OCI manifest")?
PullManifest(c, env) ==
    /\ pc[c] = "pull_manifest"
    /\ IF env.up
       THEN /\ Record(c, Event("pull_manifest", loc[c].registry, env.serving.digest,
                               loc[c].protocol, TRUE))
            /\ loc' = [loc EXCEPT ![c].oci_digest = env.serving.digest]
            /\ Goto(c, "read_digest")
            /\ UNCHANGED result
       ELSE /\ Record(c, Event("pull_manifest", loc[c].registry, <<>>,
                               loc[c].protocol, FALSE))
            /\ Finish(c, Err("ManifestFetchError"))
            /\ UNCHANGED loc
    /\ UNCHANGED <<fs, dirs, inp>>

\* the read of the digest file with its error propagated (?) instead of
\* defaulted
ReadDigestOrFail(c, env) ==
    /\ pc[c] = "read_digest"
    /\ LET read == ReadToString(loc[c].digest_file, env)
           file_digest == UnwrapOrDefault(read)
       IN  /\ loc' = [loc EXCEPT ![c].file_digest = file_digest]
           /\ Record(c, Event("read", loc[c].digest_file[2], file_digest, {},
                              read # None))
           /\ IF read = None
              THEN Finish(c, Err("CacheIoError"))
              ELSE IF CacheHit(loc[c].oci_digest, file_digest)
              THEN ReturnPath(c)
              ELSE Goto(c, "pull") /\ UNCHANGED result
    /\ UNCHANGED <<fs, dirs, inp>>

\* the read of the digest file and a hit decision that also compares the bytes
\* of cache_file with the content the registry serves under the digest
ReadDigestVerified(c, env) ==
    /\ pc[c] = "read_digest"
    /\ LET read == ReadToString(loc[c].digest_file, env)
           file_digest == UnwrapOrDefault(read)
       IN  /\ loc' = [loc EXCEPT ![c].file_digest = file_digest]
           /\ Record(c, Event("read", loc[c].digest_file[2], file_digest, {},
                              read # None))
           /\ IF /\ CacheHit(loc[c].oci_digest, file_digest)
                 /\ \E a \in Artifacts :
                       /\ a.digest = loc[c].oci_digest
                       /\ Content(a.image) = fs[loc[c].cache_file]
              THEN ReturnPath(c)
              ELSE Goto(c, "pull") /\ UNCHANGED result
    /\ UNCHANGED <<fs, dirs, inp>>

\* the read of the digest file and the hit decision
ReadDigest(c, env) ==
    /\ pc[c] = "read_digest"
    /\ LET read == ReadToString(loc[c].digest_file, env)
           file_digest == UnwrapOrDefault(read)
       IN  /\ loc' = [loc EXCEPT ![c].file_digest = file_digest]
           /\ Record(c, Event("read", loc[c].digest_file[2], file_digest, {},
                              read # None))
           /\ IF CacheHit(loc[c].oci_digest, file_digest)
              THEN ReturnPath(c)
              ELSE Goto(c, "pull") /\ UNCHANGED result
    /\ UNCHANGED <<fs, dirs, inp>>

\* the cache is updated before the artifact is validated
AfterPullCachesFirst(c, imgdata) ==
    IF inp[c].cache = Update
    THEN Goto(c, "create_cache") /\ UNCHANGED result
    ELSE IF InvalidArtifact(imgdata)
    THEN Finish(c, Err("ValidationError"))
    ELSE ReturnPath(c)

\* the cache is updated whatever the caller specified
AfterPullAlwaysCaches(c, imgdata) ==
    IF InvalidArtifact(imgdata)
    THEN Finish(c, Err("ValidationError"))
    ELSE Goto(c, "create_cache") /\ UNCHANGED result

\* what fetch_path does with the pulled imgdata: reject an invalid artifact,
\* update the cache if specified, or return
AfterPull(c, imgdata) ==
    IF InvalidArtifact(imgdata)
    THEN Finish(c, Err("ValidationError"))
    ELSE IF inp[c].cache = Update
    THEN Goto(c, "create_cache") /\ UNCHANGED result
    ELSE ReturnPath(c)

\* a failed pull is tried again
PullRetrying(c, env) ==
    /\ pc[c] = "pull"
    /\ IF env.up
       THEN /\ Record(c, Event("pull", loc[c].registry, env.serving.digest,
                               loc[c].protocol, TRUE))
            /\ loc' = [loc EXCEPT ![c] =
                          [@ EXCEPT !.imgdata = Some(env.serving.image),
                                    !.content = Content(env.serving.image)]]
            /\ AfterPull(c, env.serving.image)
       ELSE /\ Len(trace[c]) < 3
            /\ Record(c, Event("pull", loc[c].registry, <<>>, loc[c].protocol, FALSE))
            /\ UNCHANGED <<pc, result, loc>>
    /\ UNCHANGED <<fs, dirs, inp>>

\* c.pull(..).await.context("failed to fetch OCI bytes")?, the validation of
\* the pulled artifact and the decision to update the cache
Pull(c, env) ==
    /\ pc[c] = "pull"
    /\ IF env.up
       THEN /\ Record(c, Event("pull", loc[c].registry, env.serving.digest,
                               loc[c].protocol, TRUE))
            /\ loc' = [loc EXCEPT ![c] =
                          [@ EXCEPT !.imgdata = Some(env.serving.image),
                                    !.content = Content(env.serving.image)]]
            /\ AfterPull(c, env.serving.image)
       ELSE /\ Record(c, Event("pull", loc[c].registry, <<>>, loc[c].protocol, FALSE))
            /\ Finish(c, Err("PullError"))
            /\ UNCHANGED loc
    /\ UNCHANGED <<fs, dirs, inp>>

\* the file is created only while no call is writing the directory's files
CanCreateExclusive(path, env) ==
    /\ env.diskOk
    /\ path[1] \in dirs
    /\ \A d \in Calls :
          pc[d] \in {"write_cache", "create_digest", "write_digest"} =>
              loc[d].cache_file[1] # path[1]

\* File::create succeeds
CanCreate(path, env) == env.diskOk /\ path[1] \in dirs

\* cache_oci_image: fs::File::create(cache_filepath).await?
CreateCache(c, env) ==
    /\ pc[c] = "create_cache"
    /\ IF CanCreate(loc[c].cache_file, env)
       THEN /\ fs' = Truncated(loc[c].cache_file)
            /\ Record(c, Event("create", loc[c].cache_file[2], <<>>, {}, TRUE))
            /\ Goto(c, "write_cache")
            /\ UNCHANGED result
       ELSE /\ Finish(c, Err("CacheIoError"))
            /\ UNCHANGED <<fs, trace>>
    /\ UNCHANGED <<dirs, inp, loc>>

\* the bytes of the next piece of content, env.chunk of them at most
Piece(c, env) ==
    SubSeq(loc[c].content, loc[c].written + 1,
           IF loc[c].written + env.chunk > Len(loc[c].content)
           THEN Len(loc[c].content) ELSE loc[c].written + env.chunk)

\* a failed write removes the partly written cache_file
WriteCacheCleansUp(c, env) ==
    /\ pc[c] = "write_cache"
    /\ loc[c].written < Len(loc[c].content)
    /\ IF env.diskOk
       THEN /\ fs' = [fs EXCEPT ![loc[c].cache_file] =
                         WriteAt(@, loc[c].written, Piece(c, env))]
            /\ loc' = [loc EXCEPT ![c].written = @ + Len(Piece(c, env))]
            /\ UNCHANGED <<pc, result>>
       ELSE /\ Finish(c, Err("CacheIoError"))
            /\ fs' = [p \in DOMAIN fs \ {loc[c].cache_file} |-> fs[p]]
            /\ UNCHANGED loc
    /\ UNCHANGED <<dirs, inp, trace>>

\* cache_oci_image: cache_file.write_all(&content).await?, which reaches the
\* file in one or more pieces, each written at the offset of the call's handle
WriteCache(c, env) ==
    /\ pc[c] = "write_cache"
    /\ loc[c].written < Len(loc[c].content)
    /\ IF env.diskOk
       THEN /\ fs' = [fs EXCEPT ![loc[c].cache_file] =
                         WriteAt(@, loc[c].written, Piece(c, env))]
            /\ loc' = [loc EXCEPT ![c].written = @ + Len(Piece(c, env))]
            /\ UNCHANGED <<pc, result>>
       ELSE /\ Finish(c, Err("CacheIoError"))
            /\ UNCHANGED <<fs, loc>>
    /\ UNCHANGED <<dirs, inp, trace>>

\* cache_oci_image: cache_file.flush().await? once the content is written, then
\* if let Some(digest) = image.digest
FlushCache(c, env) ==
    /\ pc[c] = "write_cache"
    /\ loc[c].written = Len(loc[c].content)
    /\ IF env.diskOk
       THEN /\ Record(c, Event("write", loc[c].cache_file[2], loc[c].content, {}, TRUE))
            /\ IF loc[c].imgdata[1].digest # None
               THEN Goto(c, "create_digest") /\ UNCHANGED result
               ELSE ReturnPath(c)
       ELSE /\ Finish(c, Err("CacheIoError"))
            /\ UNCHANGED trace
    /\ UNCHANGED <<fs, dirs, inp, loc>>

\* cache_oci_image: fs::File::create(digest_filepath).await?
CreateDigest(c, env) ==
    /\ pc[c] = "create_digest"
    /\ IF CanCreate(loc[c].digest_file, env)
       THEN /\ fs' = Truncated(loc[c].digest_file)
            /\ Record(c, Event("create", loc[c].digest_file[2], <<>>, {}, TRUE))
            /\ Goto(c, "write_digest")
            /\ UNCHANGED result
       ELSE /\ Finish(c, Err("CacheIoError"))
            /\ UNCHANGED <<fs, trace>>
    /\ UNCHANGED <<dirs, inp, loc>>

\* cache_oci_image: digest_file.write_all(digest.as_bytes()).await? and the flush
WriteDigest(c, env) ==
    /\ pc[c] = "write_digest"
    /\ IF env.diskOk
       THEN /\ fs' = [fs EXCEPT ![loc[c].digest_file] =
                         WriteAt(@, 0, loc[c].imgdata[1].digest[1])]
            /\ Record(c, Event("write", loc[c].digest_file[2],
                               loc[c].imgdata[1].digest[1], {}, TRUE))
            /\ ReturnPath(c)
       ELSE /\ Finish(c, Err("CacheIoError"))
            /\ UNCHANGED <<fs, trace>>
    /\ UNCHANGED <<dirs, inp, loc>>

\* fetch_component: fs::read(&path).await
ReadPath(c, env) ==
    /\ pc[c] = "read"
    /\ IF env.diskOk /\ Exists(loc[c].cache_file)
       THEN Finish(c, Ok(loc[c].cache_file, Some(fs[loc[c].cache_file])))
       ELSE Finish(c, Err("CacheIoError"))
    /\ UNCHANGED <<fs, dirs, inp, loc, trace>>

\* a step of call c that asks the file system
DiskStep(c, env) ==
    \/ OciCacheDir(c, env)
    \/ ReadDigest(c, env)
    \/ CreateCache(c, env)
    \/ FlushCache(c, env)
    \/ CreateDigest(c, env)
    \/ WriteDigest(c, env)
    \/ ReadPath(c, env)

\* a step of call c that asks the registry
NetStep(c, env) ==
    \/ PullManifest(c, env)
    \/ Pull(c, env)

\* ------------------------------------------------------------ the inputs

RefV1 == <<"r", ".", "x", "/", "w", ":", "1">>

RefV1Upper == <<"R", ".", "X", "/", "W", ":", "1">>

RefLatest == <<"r", ".", "x", "/", "w", ":", "l", "a", "t", "e", "s", "t">>

RefLatestUpper == <<"r", ".", "x", "/", "w", ":", "L", "A", "T", "E", "S", "T">>

RefOtherHost == <<"s", ".", "x", "/", "w", ":", "1">>

RefInvalid == <<"/", "w">>

Refs == {RefV1, RefV1Upper, RefLatest, RefLatestUpper, RefOtherHost, RefInvalid}

CaPaths == {<<>>, <<"ca.pem">>, <<"ca.pem", "missing.pem">>}

\* the default fetcher and those that differ from it in one or two fields
Fetchers ==
    {OciFetcher(<<>>, latest, insecure) : latest \in BOOLEAN, insecure \in BOOLEAN}
    \cup {OciFetcher(ca, latest, FALSE) : ca \in CaPaths, latest \in BOOLEAN}

\* calls are numbered in the order they are made
NextCall(c) == pc[c] = "idle" /\ \A d \in Calls : d < c => pc[d] # "idle"


\* ------------------------------------------------- concurrent fetch calls

Init ==
    /\ fs = <<>>
    /\ dirs = {}
    /\ pc = [c \in Calls |-> "idle"]
    /\ inp = [c \in Calls |-> NoInput]
    /\ loc = [c \in Calls |-> NoLocals]
    /\ trace = [c \in Calls |-> <<>>]
    /\ result = [c \in Calls |-> NoResult]
    /\ answers = <<>>

\* Fetch calls of one fetcher for one reference, written in either case,
\* overlapping freely, while the registry moves between two versions.
Next ==
    \/ \E c \in Calls, img \in {RefV1, RefV1Upper} :
          NextCall(c) /\ FetchComponent(c, DefaultFetcher, img)
              /\ UNCHANGED answers
    \/ \E c \in Calls : (Begin(c) \/ Metadata(c)) /\ UNCHANGED answers
    \/ \E c \in Calls, env \in DiskEnvs : DiskStep(c, env) /\ UNCHANGED answers
    \/ \E c \in Calls, env \in WriteEnvs(MaxChunk) : WriteCache(c, env) /\ UNCHANGED answers
    \/ \E c \in Calls, env \in NetEnvs({Widget1, Widget2}) : NetStep(c, env) /\ UNCHANGED answers

Spec == Init /\ [][Next]_vars

\* ------------------------------------------------- sequential fetch calls

NoCallInFlight == \A c \in Calls : pc[c] \in {"idle", "done"}

\* Fetch calls that do not overlap: a call is made when every earlier call
\* has returned.
SeqNext ==
    \/ \E c \in Calls, img \in {RefV1, RefV1Upper} :
          NextCall(c) /\ NoCallInFlight /\ FetchComponent(c, DefaultFetcher, img)
              /\ UNCHANGED answers
    \/ \E c \in Calls, img \in {RefV1, RefV1Upper}, cache \in {Ignore, Update} :
          NextCall(c) /\ NoCallInFlight
              /\ FetchPath(c, DefaultFetcher, CacheRoot, img, cache)
              /\ UNCHANGED answers
    \/ \E c \in Calls : (Begin(c) \/ Metadata(c)) /\ UNCHANGED answers
    \/ \E c \in Calls, env \in DiskEnvs : DiskStep(c, env) /\ UNCHANGED answers
    \/ \E c \in Calls, env \in WriteEnvs(MaxChunk) : WriteCache(c, env) /\ UNCHANGED answers
    \/ \E c \in Calls, env \in NetEnvs(Artifacts) : NetStep(c, env) /\ UNCHANGED answers

SeqSpec == Init /\ [][SeqNext]_vars

\* --------------------------------------- two fetchers, the same responses

\* the files cache_oci_image leaves for image under output_dir
Cached(output_dir, img, image) ==
    LET cache_file == CacheFile(output_dir, img)
        digest_file == DigestFile(output_dir, img)
    IN  [p \in {cache_file} \cup (IF image.digest # None THEN {digest_file} ELSE {}) |->
            IF p = cache_file THEN Content(image) ELSE image.digest[1]]

\* The cache directory as earlier fetches of RefV1 have left it: empty, holding
\* one pull, or holding a pull without digest over an earlier pull.
WarmCaches(output_dir) ==
    {<<>>}
    \cup {Cached(output_dir, RefV1, a.image) :
             a \in {Widget1, NoDigestWasm, EmptyDigestWasm}}
    \cup {Cached(output_dir, RefV1, NoDigestWasm.image)
             @@ Cached(output_dir, RefV1, Widget1.image)}

\* the same files under another directory
Moved(files, output_dir) ==
    [p \in {<<output_dir, q[2]>> : q \in DOMAIN files} |->
        files[CHOOSE q \in DOMAIN files : q[2] = p[2]]]

PairInit ==
    /\ \E files \in WarmCaches("out1") : fs = files @@ Moved(files, "out2")
    /\ dirs = {"out1", "out2"}
    /\ pc = [c \in Calls |-> "idle"]
    /\ inp = [c \in Calls |-> NoInput]
    /\ loc = [c \in Calls |-> NoLocals]
    /\ trace = [c \in Calls |-> <<>>]
    /\ result = [c \in Calls |-> NoResult]
    /\ answers = <<>>

\* the await point call c is at
AwaitPoint(c) == <<pc[c], loc[c].written>>

\* call c is answered what the other call was answered at the same await point
Replayed(c, env) ==
    /\ AwaitPoint(c) \in DOMAIN answers => env = answers[AwaitPoint(c)]
    /\ answers' = IF AwaitPoint(c) \in DOMAIN answers
                  THEN answers
                  ELSE answers @@ (AwaitPoint(c) :> env)

\* Call 1, of a fetcher that allows latest tags, then call 2, with the same
\* arguments, of a fetcher that differs only in allow_latest, each under its own
\* copy of the same cache directory, call 2 being answered what call 1 was.
PairNext ==
    \/ \E self \in Fetchers, img \in Refs \ {RefV1Upper}, cache \in {Ignore, Update} :
          /\ self.allow_latest
          /\ FetchPath(1, self, "out1", img, cache)
          /\ UNCHANGED answers
    \/ /\ pc[1] = "done"
       /\ FetchPath(2, [inp[1].self EXCEPT !.allow_latest = FALSE], "out2",
                    inp[1].img, inp[1].cache)
       /\ UNCHANGED answers
    \/ \E c \in {1, 2} : (Begin(c) \/ Metadata(c)) /\ UNCHANGED answers
    \/ \E c \in {1, 2}, env \in DiskEnvs : DiskStep(c, env) /\ Replayed(c, env)
    \/ \E c \in {1, 2}, env \in WriteEnvs(MaxChunk) :
          WriteCache(c, env) /\ Replayed(c, env)
    \/ \E c \in {1, 2}, env \in NetEnvs(Artifacts) : NetStep(c, env) /\ Replayed(c, env)

PairSpec == PairInit /\ [][PairNext]_vars

\* ----------------------------------------------- the derivation of the paths

RefNsSlash == <<"n", "s", "/", "n", "a", "m", "e", ":", "t", "a", "g">>

RefNsDot == <<"n", "s", ".", "n", "a", "m", "e", "_", "t", "a", "g">>

NameChars == {"n", "N", ":", "/", ".", "_"}

\* the reference strings of one to MaxNameLen characters
Names == UNION {[1..n -> NameChars] : n \in 1..MaxNameLen}

\* fetch_path from the normalization to the two paths (it computes them before
\* it parses the reference)
DerivePaths(c) ==
    /\ pc[c] = "begin"
    /\ LET img == NormalizeRef(inp[c].img)
       IN  loc' = [loc EXCEPT ![c] =
                      [@ EXCEPT !.img = img,
                                !.cache_file = CacheFile(inp[c].output_dir, img),
                                !.digest_file = DigestFile(inp[c].output_dir, img)]]
    /\ Goto(c, "derived")
    /\ UNCHANGED <<fs, dirs, inp, trace, result>>

\* The paths of a first call for any short reference string, and of later
\* calls for the same string or for one of the two long ones.
NameNext ==
    \/ \E img \in Names \cup {RefNsSlash, RefNsDot} :
          FetchPath(1, DefaultFetcher, CacheRoot, img, Ignore) /\ UNCHANGED answers
    \/ \E c \in Calls \ {1}, img \in {inp[1].img, RefNsSlash, RefNsDot} :
          /\ NextCall(c)
          /\ FetchPath(c, DefaultFetcher, CacheRoot, img, Ignore)
          /\ UNCHANGED answers
    \/ \E c \in Calls : DerivePaths(c) /\ UNCHANGED answers

NameSpec == Init /\ [][NameNext]_vars

\* ------------------------------------------- calls of one fetcher, two hosts

HostsInit ==
    /\ fs = Cached("out1", RefV1, Widget1.image)
    /\ dirs = {"out1"}
    /\ pc = [c \in Calls |-> "idle"]
    /\ inp = [c \in Calls |-> NoInput]
    /\ loc = [c \in Calls |-> NoLocals]
    /\ trace = [c \in Calls |-> <<>>]
    /\ result = [c \in Calls |-> NoResult]
    /\ answers = <<>>

\* fetch_path calls of one fetcher, which allows insecure access or does not,
\* for references on two registry hosts, one of them cached, overlapping
\* freely; the calls do not update the cache.
HostsNext ==
    \/ \E c \in Calls, insecure \in BOOLEAN, img \in {RefV1, RefOtherHost} :
          /\ NextCall(c)
          /\ c > 1 => insecure = inp[1].self.allow_insecure
          /\ FetchPath(c, OciFetcher(<<>>, FALSE, insecure), "out1", img, Ignore)
          /\ UNCHANGED answers
    \/ \E c \in Calls : (Begin(c) \/ Metadata(c)) /\ UNCHANGED answers
    \/ \E c \in Calls, env \in DiskEnvs : ReadDigest(c, env) /\ UNCHANGED answers
    \/ \E c \in Calls, env \in NetEnvs({Widget1, Widget2}) :
          NetStep(c, env) /\ UNCHANGED answers

HostsSpec == HostsInit /\ [][HostsNext]_vars


\* ------------------------------------------------------------ the claims

Done(c) == pc[c] = "done"

Started(c) == pc[c] # "idle"

\* the events of call c with one of the operations ops
Events(c, ops) == {i \in DOMAIN trace[c] : trace[c][i].op \in ops}

NetOps == {"pull_manifest", "pull"}

WriteOps == {"create", "write"}

\* the lowercased reference of call c ends with ":latest"
TaggedLatest(c) ==
    LET img == inp[c].img
    IN  /\ Len(img) >= 7
        /\ [i \in 1..7 |-> LowerChar(img[Len(img) - 7 + i])] = LatestTag

\* the files under output_dir, by name
Under(output_dir) ==
    [n \in {p[2] : p \in {q \in DOMAIN fs : q[1] = output_dir}} |-> fs[<<output_dir, n>>]]

\* the files under output_dir are those the behaviour began with
Untouched(output_dir) ==
    \E files \in WarmCaches(output_dir) :
        /\ DOMAIN files = {p \in DOMAIN fs : p[1] = output_dir}
        /\ \A p \in DOMAIN files : fs[p] = files[p]

\* C1: a call of a fetcher with allow_latest = false for a reference whose
\* lowercased form ends with ":latest" goes no further than the policy check:
\* it returns a policy violation, has made no network call and no file
\* operation, and the files under its output directory are as they were.
C1_LatestRejected ==
    \A c \in Calls :
        (Started(c) /\ ~inp[c].self.allow_latest /\ TaggedLatest(c)) =>
            /\ pc[c] \in {"begin", "done"}
            /\ Done(c) => result[c] = Err("PolicyViolation")
            /\ trace[c] = <<>>
            /\ Untouched(inp[c].output_dir)

\* C1 witness: a call for a reference ending in ":LATEST" was rejected while
\* the cache directory held files
C1_Witness ==
    \E c \in Calls :
        /\ Done(c)
        /\ inp[c].img = RefLatestUpper
        /\ ~inp[c].self.allow_latest
        /\ result[c].kind = "PolicyViolation"
        /\ Under(inp[c].output_dir) # <<>>

\* the last element of a non-empty set of indices
Last(indices) == CHOOSE i \in indices : \A j \in indices : j <= i

\* the manifest digest the registry reported in the last network call of c
RemoteDigest(c) == trace[c][Last(Events(c, NetOps))].data

\* call c met no failing file-system operation
NoIoFault(c) ==
    /\ result[c].kind # "CacheIoError"
    /\ \A i \in Events(c, {"read"}) : trace[c][i].ok

\* call second is a later call with the inputs of call first, which succeeded
\* with cache update; the registry answered every network call of second, with
\* the manifest digest it reported to first; second met no file-system fault
C2_SecondCall(first, second) ==
    /\ first < second
    /\ Done(first) /\ Done(second)
    /\ inp[second] = inp[first]
    /\ inp[first].cache = Update
    /\ result[first].kind = "Ok"
    /\ Events(first, NetOps) # {}
    /\ Events(second, NetOps) # {}
    /\ \A i \in Events(second, NetOps) :
          trace[second][i].ok /\ trace[second][i].data = RemoteDigest(first)
    /\ NoIoFault(second)

\* second made no full pull and one manifest-only fetch, and returned the path
\* first returned
C2_NoPull(first, second) ==
    /\ Events(second, {"pull"}) = {}
    /\ Cardinality(Events(second, {"pull_manifest"})) = 1
    /\ result[second].kind = "Ok"
    /\ result[second].path = result[first].path

\* the manifest first pulled carried a digest and the digest is not empty, or
\* first was itself served from the cache
C2_DigestCarried(first) ==
    \/ loc[first].imgdata = None
    \/ /\ loc[first].imgdata[1].digest # None
       /\ loc[first].imgdata[1].digest[1] # <<>>

PassedBegin(c) == Started(c) /\ loc[c].cache_file # NoPath

\* call c returned the cached path without a full pull
Hit(c) == Done(c) /\ result[c].kind = "Ok" /\ Events(c, {"pull"}) = {}

\* the manifest-only fetch of call c succeeded, and the digest it reported and
\* the digest call c read from digest_file are non-empty and equal
DigestsAgree(c) ==
    \E i \in Events(c, {"pull_manifest"}), j \in Events(c, {"read"}) :
        /\ trace[c][i].ok
        /\ trace[c][i].data # <<>>
        /\ trace[c][j].data # <<>>
        /\ trace[c][i].data = trace[c][j].data

\* C3: a call that passed policy, parse and certificate loading returns the
\* cached path without a full pull exactly when cache_file existed, the
\* manifest-only fetch succeeded and the remote digest and the digest read from
\* digest_file are non-empty and equal; without cache_file it issues no
\* manifest-only fetch; every other outcome of a successful manifest-only fetch
\* goes on to a full pull.
C3_HitDecision ==
    \A c \in Calls :
        PassedBegin(c) =>
            /\ pc[c] \in {"pull_manifest", "read_digest"} => Exists(loc[c].cache_file)
            /\ (pc[c] = "pull" /\ trace[c] = <<>>) => ~Exists(loc[c].cache_file)
            /\ (pc[c] # "metadata" /\ ~loc[c].existed) => Events(c, {"pull_manifest"}) = {}
            /\ Done(c) => (Hit(c) <=> (loc[c].existed /\ DigestsAgree(c)))
            /\ Hit(c) => result[c].path = loc[c].cache_file /\ Events(c, WriteOps) = {}
            /\ (Done(c) /\ ~Hit(c)
                    /\ \E i \in Events(c, {"pull_manifest"}) : trace[c][i].ok) =>
                   Events(c, {"pull"}) # {}

\* C3 witness: a call found cache_file, fetched the manifest, read the digest
\* Widget1 was cached with and returned the cached path without a pull
C3_Witness ==
    \E c \in Calls :
        /\ Hit(c)
        /\ loc[c].existed
        /\ loc[c].file_digest = DigestAbc
        /\ Cardinality(Events(c, {"pull_manifest"})) = 1

\* no call was made after call c
LatestCall(c) == \A d \in Calls : d > c => ~Started(d)

\* call c took the full-pull path with cache update and succeeded
PulledAndCached(c) ==
    /\ Done(c)
    /\ result[c].kind = "Ok"
    /\ inp[c].cache = Update
    /\ loc[c].imgdata # None

ValidatedPulls ==
    {loc[d].imgdata[1] : d \in {e \in Calls : loc[e].imgdata # None
                                              /\ result[e].kind # "ValidationError"}}

\* C5: under every interleaving of fetch_component calls, a call that does not
\* return an error returns bytes that are the complete concatenation of the
\* layers of one single validated pull.
C5_NoPartialSuccess ==
    \A c \in Calls :
        (Done(c) /\ inp[c].op = "fetch_component" /\ result[c].kind = "Ok") =>
            \E image \in ValidatedPulls : result[c].bytes = Some(Concat(image.layers))

\* calls c and d were given the same reference up to letter case, and the same
\* output directory
SameReference(c, d) ==
    /\ inp[c].output_dir = inp[d].output_dir
    /\ Len(inp[c].img) = Len(inp[d].img)
    /\ \A i \in DOMAIN inp[c].img : LowerChar(inp[c].img[i]) = LowerChar(inp[d].img[i])

\* call c decided cache miss without finding cache_file, pulled, and created
\* cache_file
MissedAndWrote(c) ==
    /\ PassedBegin(c)
    /\ ~loc[c].existed
    /\ \E i \in Events(c, {"pull"}) : trace[c][i].ok
    /\ \E i \in Events(c, {"create"}) : trace[c][i].target = loc[c].cache_file[2]

\* C6: calls for the same normalized reference write one and the same
\* cache_file/digest_file pair, and nothing coordinates them: a call that has
\* decided cache miss and pulled can create (truncate) cache_file whatever the
\* other calls are doing.  The witness is the torn pair this allows.
C6_Unsynchronized ==
    \A c \in Calls :
        /\ \A d \in Calls :
              (PassedBegin(c) /\ PassedBegin(d) /\ SameReference(c, d)) =>
                  /\ loc[c].cache_file = loc[d].cache_file
                  /\ loc[c].digest_file = loc[d].digest_file
        /\ (pc[c] = "create_cache" /\ loc[c].cache_file[1] \in dirs) =>
              ENABLED (CreateCache(c, Env(TRUE, Widget1, TRUE, 1))
                          /\ pc'[c] = "write_cache")

\* C6 witness: two overlapping calls both found no cache_file, both pulled and
\* both wrote; cache_file holds the bytes one of them pulled and digest_file
\* the digest of the different manifest the other pulled
C6_Witness ==
    \E c, d \in Calls :
        /\ c # d
        /\ MissedAndWrote(c) /\ MissedAndWrote(d)
        /\ loc[c].cache_file = loc[d].cache_file
        /\ loc[c].imgdata[1].digest # loc[d].imgdata[1].digest
        /\ Exists(loc[c].cache_file) /\ Exists(loc[c].digest_file)
        /\ fs[loc[c].cache_file] = Concat(loc[c].imgdata[1].layers)
        /\ fs[loc[c].cache_file] # Concat(loc[d].imgdata[1].layers)
        /\ fs[loc[c].digest_file] = loc[d].imgdata[1].digest[1]
        /\ Done(c) /\ Done(d)

\* call c pulled an artifact that has the WASM-component manifest media type
PulledWasmType(c) ==
    /\ loc[c].imgdata # None
    /\ loc[c].imgdata[1].manifest # None
    /\ loc[c].imgdata[1].manifest[1].media_type = Some(WASM_MANIFEST_MEDIA_TYPE)

\* C7: a call that pulled an artifact of the WASM-component manifest media type
\* with two or more layers has failed with a validation error and has created
\* and written no file (so with no other writer there is no file at all); a
\* call that pulled an artifact of another manifest media type, of no media
\* type or of no manifest never fails with a validation error.
C7_Validation ==
    \A c \in Calls :
        loc[c].imgdata # None =>
            /\ (PulledWasmType(c) /\ Len(loc[c].imgdata[1].layers) >= 2) =>
                  /\ Done(c)
                  /\ result[c] = Err("ValidationError")
                  /\ Events(c, WriteOps) = {}
                  /\ (\A d \in Calls \ {c} : Events(d, WriteOps) = {}) => fs = <<>>
            /\ ~PulledWasmType(c) => result[c].kind # "ValidationError"

\* C7 witness: one call pulled a two-layer artifact of the Docker manifest type
\* and cached its bytes, another pulled a WASM-type artifact of two empty
\* layers and was rejected
C7_Witness ==
    \E c, d \in Calls :
        /\ Done(c) /\ loc[c].imgdata = Some(TwoLayerDocker.image)
        /\ result[c].kind = "Ok"
        /\ Events(c, WriteOps) # {}
        /\ fs[loc[c].cache_file] = <<3, 4>>
        /\ Done(d) /\ loc[d].imgdata = Some(TwoEmptyLayersWasm.image)
        /\ result[d] = Err("ValidationError")

\* call c went past the validation of what it pulled
Accepted(c) ==
    /\ loc[c].imgdata # None
    /\ \/ pc[c] \in {"create_cache", "write_cache", "create_digest", "write_digest", "read"}
       \/ Done(c) /\ result[c].kind = "Ok"

HostOf(c) ==
    LET img == inp[c].img
        slash == CHOOSE i \in DOMAIN img :
                    img[i] = "/" /\ \A j \in 1..(i - 1) : img[j] # "/"
    IN  [i \in 1..(slash - 1) |-> LowerChar(img[i])]

\* the hosts call c may reach over plain HTTP
PlainHosts(c) == IF inp[c].self.allow_insecure THEN {HostOf(c)} ELSE {}

\* C9: the client of a call is built with no plain-HTTP host when
\* allow_insecure is false and with exactly the host of the call's reference
\* when it is true, and every network call of the call goes to that host under
\* that protocol; so no call makes a host other than its own reachable without
\* TLS.
C9_TransportScoping ==
    \A c \in Calls :
        /\ PassedBegin(c) => loc[c].protocol = PlainHosts(c)
        /\ \A i \in Events(c, NetOps) :
              /\ trace[c][i].target = HostOf(c)
              /\ trace[c][i].plain = PlainHosts(c)
              /\ \A d \in Calls :
                    (PassedBegin(d) /\ HostOf(d) # HostOf(c)) =>
                        HostOf(d) \notin trace[c][i].plain

\* C9 witness: two calls of a fetcher that allows insecure access, for
\* references on different hosts, have both pulled
C9_Witness ==
    \E c, d \in Calls :
        /\ inp[c].self.allow_insecure /\ inp[d].self.allow_insecure
        /\ Done(c) /\ Done(d)
        /\ HostOf(c) = <<"r", ".", "x">> /\ HostOf(d) = <<"s", ".", "x">>
        /\ Events(c, {"pull"}) # {} /\ Events(d, {"pull"}) # {}
        /\ \A i \in Events(c, NetOps) : trace[c][i].plain = {<<"r", ".", "x">>}
        /\ \A i \in Events(d, NetOps) : trace[d][i].plain = {<<"s", ".", "x">>}

\* C10: when the reference does not end with ":latest", lowercased, the call of
\* the fetcher that allows latest tags and the call of the fetcher that does
\* not, begun from the same cache state and given the same answers, have made
\* the same network calls and file operations, hold the same result, and leave
\* the same files.
C10_PolicyIndependence ==
    (Done(1) /\ Done(2) /\ ~TaggedLatest(1)) =>
        /\ inp[1].self.allow_latest /\ ~inp[2].self.allow_latest
        /\ trace[1] = trace[2]
        /\ result[1].kind = result[2].kind
        /\ result[1].path[2] = result[2].path[2]
        /\ result[1].bytes = result[2].bytes
        /\ Under("out1") = Under("out2")

\* C10 witness: the two calls, for a reference with another tag, both pulled
\* and both wrote the cache pair
C10_Witness ==
    /\ Done(1) /\ Done(2) /\ ~TaggedLatest(1)
    /\ inp[1].self.allow_latest /\ ~inp[2].self.allow_latest
    /\ result[1].kind = "Ok" /\ result[2].kind = "Ok"
    /\ Events(1, {"pull"}) # {} /\ Events(2, {"pull"}) # {}
    /\ \E i \in Events(2, {"write"}) : trace[2][i].target = loc[2].digest_file[2]

\* call c has read digest_file and found no digest: the read failed, or, c
\* having written nothing since, the file is missing or empty
FoundNoDigest(c) ==
    /\ PassedBegin(c)
    /\ Events(c, {"read"}) # {}
    /\ \/ \E i \in Events(c, {"read"}) : ~trace[c][i].ok
       \/ /\ Events(c, WriteOps) = {}
          /\ \/ ~Exists(loc[c].digest_file)
             \/ fs[loc[c].digest_file] = <<>>

\* C11: a call that found cache_file and then found digest_file missing,
\* unreadable or empty took the empty string for the local digest, decided
\* cache miss and went on to the full pull: it is about to pull or has pulled,
\* and it has not returned a cache hit nor failed at the read.
C11_MissingDigestIsMiss ==
    \A c \in Calls :
        FoundNoDigest(c) =>
            /\ loc[c].existed
            /\ loc[c].file_digest = <<>>
            /\ \A i \in Events(c, {"read"}) : trace[c][i].data = <<>>
            /\ ~Hit(c)
            /\ pc[c] = "pull" \/ Events(c, {"pull"}) # {}
            /\ Events(c, {"pull"}) = {} => result[c] = NoResult

\* C11 witness: cache_file was there without digest_file, the registry
\* reported a digest, and the call pulled and returned the path
C11_Witness ==
    \E c \in Calls :
        /\ Done(c) /\ result[c].kind = "Ok"
        /\ loc[c].existed
        /\ ~Exists(loc[c].digest_file)
        /\ loc[c].oci_digest # <<>>
        /\ \E i \in Events(c, {"read"}) : ~trace[c][i].ok
        /\ Events(c, {"pull"}) # {}

\* the digest the registry reported to call c in a successful manifest-only
\* fetch is not empty and is the content of digest_file
TokenMatches(c) ==
    /\ Exists(loc[c].digest_file)
    /\ \E i \in Events(c, {"pull_manifest"}) :
          /\ trace[c][i].ok
          /\ trace[c][i].data # <<>>
          /\ trace[c][i].data = fs[loc[c].digest_file]

\* C12: for a call that has returned, has written nothing and read without a
\* file-system error, whether it returned a cache hit is decided by the
\* existence of cache_file, the content of digest_file and the digest the
\* registry reported, whatever the bytes of cache_file are.
C12_DigestSoleToken ==
    \A c \in Calls :
        (Done(c) /\ PassedBegin(c) /\ Events(c, WriteOps) = {} /\ NoIoFault(c)) =>
            (Hit(c) <=> (Exists(loc[c].cache_file) /\ TokenMatches(c)))

\* C12 witness: cache_file holds bytes <<3, 4>> next to the digest of Widget1,
\* whose content is <<1, 2>>, and the call returned it as a hit
C12_Witness ==
    \E c \in Calls :
        /\ Hit(c)
        /\ TokenMatches(c)
        /\ fs[loc[c].digest_file] = Widget1.digest
        /\ fs[loc[c].cache_file] = <<3, 4>>
        /\ fs[loc[c].cache_file] # Content(Widget1.image)

Derived(c) == pc[c] = "derived"

\* C13: the name of cache_file is the lowercased reference with every ':', '/'
\* and '.' replaced by '_' and every other character kept, both files are
\* under the output directory, the name of digest_file is that name followed
\* by ".digest", calls for the same reference derive the same pair, and
\* "ns/name:tag" and "ns.name_tag" derive the same pair.
C13_FilenameDerivation ==
    \A c \in Calls :
        Derived(c) =>
            LET img == inp[c].img
                name == loc[c].cache_file[2]
            IN  /\ Len(name) = Len(img)
                /\ \A i \in DOMAIN img :
                      name[i] = IF img[i] \in {":", "/", "."}
                                THEN "_" ELSE LowerChar(img[i])
                /\ loc[c].cache_file[1] = inp[c].output_dir
                /\ loc[c].digest_file[1] = inp[c].output_dir
                /\ loc[c].digest_file[2] = name \o <<".", "d", "i", "g", "e", "s", "t">>
                /\ \A d \in Calls :
                      (Derived(d) /\ (inp[d].img = img
                                      \/ {inp[d].img, img} = {RefNsSlash, RefNsDot})) =>
                          /\ loc[d].cache_file = loc[c].cache_file
                          /\ loc[d].digest_file = loc[c].digest_file

\* C13 witness: one call derived the pair of "ns/name:tag", another that of
\* "ns.name_tag"
C13_Witness ==
    \E c, d \in Calls :
        /\ Derived(c) /\ Derived(d)
        /\ inp[c].img = RefNsSlash /\ inp[d].img = RefNsDot
        /\ loc[c].cache_file[2] = <<"n", "s", "_", "n", "a", "m", "e", "_", "t", "a", "g">>
        /\ loc[d].digest_file = loc[c].digest_file

\* C14: a call issues at most one manifest-only fetch and at most one full
\* pull, and a failed network operation is the last thing the call did: the
\* call has returned the error of that operation.
C14_NoRetries ==
    \A c \in Calls :
        /\ Cardinality(Events(c, {"pull_manifest"})) <= 1
        /\ Cardinality(Events(c, {"pull"})) <= 1
        /\ \A i \in Events(c, NetOps) :
              ~trace[c][i].ok =>
                  /\ i = Len(trace[c])
                  /\ Done(c)
                  /\ result[c] = Err(IF trace[c][i].op = "pull"
                                     THEN "PullError" ELSE "ManifestFetchError")

\* C14 witness: after a manifest-only fetch and a miss the pull failed, and the
\* call returned the error having made those two network calls
C14_Witness ==
    \E c \in Calls :
        /\ Done(c)
        /\ result[c] = Err("PullError")
        /\ Cardinality(Events(c, {"pull_manifest"})) = 1
        /\ Cardinality(Events(c, {"pull"})) = 1
        /\ ~trace[c][Len(trace[c])].ok

\* call c was given a reference that passes the latest-tag policy and parses,
\* by a fetcher one of whose additional CA paths cannot be loaded
CertLoadFails(c) ==
    /\ Started(c)
    /\ inp[c].self.allow_latest \/ ~TaggedLatest(c)
    /\ inp[c].img # RefInvalid
    /\ \E i \in DOMAIN inp[c].self.additional_ca_paths :
          inp[c].self.additional_ca_paths[i] = "missing.pem"

\* C15: such a call goes no further than the loading of the certificates: it
\* returns a certificate-load error, has made no network call and no file
\* operation, and the files under its output directory are as they were.
C15_CertLoadFatal ==
    \A c \in Calls :
        CertLoadFails(c) =>
            /\ pc[c] \in {"begin", "done"}
            /\ Done(c) => result[c] = Err("CertLoadError")
            /\ trace[c] = <<>>
            /\ Untouched(inp[c].output_dir)

\* C15 witness: the call failed on the second of two CA paths while its cache
\* directory held Widget1 with its digest
C15_Witness ==
    \E c \in Calls :
        /\ CertLoadFails(c)
        /\ Done(c)
        /\ inp[c].self.additional_ca_paths = <<"ca.pem", "missing.pem">>
        /\ result[c] = Err("CertLoadError")
        /\ Under(inp[c].output_dir) = Under("out1")
        /\ \E p \in DOMAIN fs : p[1] = inp[c].output_dir /\ fs[p] = Widget1.digest

\* C16: no step of any fetch call removes a file or a directory: the files
\* that exist before the step exist after it, and so do the directories.
C16_NoEviction ==
    [][(DOMAIN fs \subseteq DOMAIN fs') /\ (dirs \subseteq dirs')]_vars

\* C16 witness: cache_file has been created by one call and created again by
\* another, which then failed in cache_oci_image; the file and the cache root
\* are there
C16_Witness ==
    \E c, d \in Calls :
        /\ c # d
        /\ \E i \in Events(c, {"create"}) : trace[c][i].target = loc[c].cache_file[2]
        /\ \E i \in Events(d, {"create"}) : trace[d][i].target = loc[c].cache_file[2]
        /\ loc[c].existed # loc[d].existed
        /\ Done(c) /\ Done(d)
        /\ result[d] = Err("CacheIoError")
        /\ Exists(loc[c].cache_file)
        /\ CacheRoot \in dirs

\* event i of call c is a file operation on the file named name
OnFile(c, i, name) == trace[c][i].op \in WriteOps /\ trace[c][i].target = name

\* before its event i, call c made a successful manifest-only fetch and then
\* read digest_file, and the two digests were not both non-empty and equal
MissedBefore(c, i) ==
    \E j, k \in DOMAIN trace[c] :
        /\ j < k /\ k < i
        /\ trace[c][j].op = "pull_manifest" /\ trace[c][j].ok
        /\ trace[c][k].op = "read"
        /\ \/ trace[c][j].data = <<>>
           \/ trace[c][k].data = <<>>
           \/ trace[c][j].data # trace[c][k].data

\* C17: in the events of one call, a full pull comes after a hit-check that
\* ended in a miss, or first when cache_file was absent; the call holds a
\* validation verdict only with a successful pull; a file operation comes
\* after the call's own successful pull of an artifact that passes validation;
\* and the operations on digest_file come after the write of cache_file.
C17_StepOrder ==
    \A c \in Calls :
        /\ \A i \in Events(c, {"pull"}) :
              IF loc[c].existed
              THEN MissedBefore(c, i)
              ELSE i = 1
        /\ (loc[c].imgdata # None \/ result[c].kind = "ValidationError") =>
              \E i \in Events(c, {"pull"}) : trace[c][i].ok
        /\ \A i \in Events(c, WriteOps) :
              /\ \E j \in Events(c, {"pull"}) : j < i /\ trace[c][j].ok
              /\ ~(PulledWasmType(c) /\ Len(loc[c].imgdata[1].layers) >= 2)
              /\ result[c].kind # "ValidationError"
              /\ OnFile(c, i, loc[c].digest_file[2]) =>
                    \E j \in Events(c, {"write"}) :
                        j < i /\ OnFile(c, j, loc[c].cache_file[2])
              /\ OnFile(c, i, loc[c].cache_file[2]) =>
                    \A j \in Events(c, WriteOps) :
                        OnFile(c, j, loc[c].digest_file[2]) => i < j

\* C17 witness: a call went through manifest-only fetch, read, pull, and the
\* creation and write of cache_file and then of digest_file
C17_Witness ==
    \E c \in Calls :
        /\ Done(c) /\ result[c].kind = "Ok"
        /\ [i \in DOMAIN trace[c] |-> trace[c][i].op] =
               <<"pull_manifest", "read", "pull", "create", "write", "create", "write">>
        /\ trace[c][5].target = loc[c].cache_file[2]
        /\ trace[c][7].target = loc[c].digest_file[2]

\* the manifest-only fetch of call c failed
ManifestFetchFailed(c) ==
    \E i \in Events(c, {"pull_manifest"}) : ~trace[c][i].ok

\* C18: a call whose manifest-only fetch failed had found cache_file, has
\* returned a manifest-fetch error and no path, has made no full pull and no
\* file operation, and the files under its output directory are as they were.
C18_ManifestFailureFatal ==
    \A c \in Calls :
        ManifestFetchFailed(c) =>
            /\ loc[c].existed
            /\ Exists(loc[c].cache_file)
            /\ Done(c)
            /\ result[c] = Err("ManifestFetchError")
            /\ result[c].path = NoPath
            /\ Events(c, {"pull"}) = {}
            /\ Events(c, WriteOps \cup {"read"}) = {}
            /\ Untouched(inp[c].output_dir)

\* C18 witness: the registry was unreachable for a call whose cache directory
\* held Widget1 with its digest
C18_Witness ==
    \E c \in Calls :
        /\ ManifestFetchFailed(c)
        /\ Done(c)
        /\ fs[loc[c].cache_file] = Content(Widget1.image)
        /\ fs[loc[c].digest_file] = Widget1.digest
        /\ Len(trace[c]) = 1

\* some call pulled an artifact whose manifest digest is digest and whose
\* layers concatenate to bytes
PulledWithDigest(digest, bytes) ==
    \E d \in Calls :
        /\ loc[d].imgdata # None
        /\ loc[d].imgdata[1].digest = Some(digest)
        /\ Concat(loc[d].imgdata[1].layers) = bytes

\* C19: with calls that do not overlap and none in flight, where cache_file
\* exists and digest_file holds a non-empty digest, the bytes of cache_file are
\* the layer concatenation of a pull whose manifest digest was that digest.
C19_PairConsistent ==
    \A c \in Calls :
        (NoCallInFlight /\ PassedBegin(c)
             /\ Exists(loc[c].cache_file) /\ Exists(loc[c].digest_file)
             /\ fs[loc[c].digest_file] # <<>>) =>
            PulledWithDigest(fs[loc[c].digest_file], fs[loc[c].cache_file])

\* call c is a fetch_path call that was told not to update the cache
IgnoresCache(c) == inp[c].op = "fetch_path" /\ inp[c].cache = Ignore

\* C20: a fetch_path call with cache update Ignore is never in
\* cache_oci_image and has made no file operation, the files under its output
\* directory are as they were, and when its pull succeeded and the artifact
\* passed validation it has returned the path of cache_file.
C20_IgnoreWritesNothing ==
    \A c \in Calls :
        IgnoresCache(c) =>
            /\ pc[c] \notin {"create_cache", "write_cache", "create_digest", "write_digest"}
            /\ Events(c, WriteOps) = {}
            /\ Untouched(inp[c].output_dir)
            /\ (loc[c].imgdata # None /\ result[c].kind # "ValidationError") =>
                  /\ Done(c)
                  /\ result[c] = Ok(loc[c].cache_file, None)
                  /\ result[c].path = <<inp[c].output_dir, loc[c].cache_file[2]>>

\* C20 witness: such a call pulled Widget1 and returned a path at which there
\* is no file
C20_Witness ==
    \E c \in Calls :
        /\ IgnoresCache(c)
        /\ Done(c) /\ result[c].kind = "Ok"
        /\ loc[c].imgdata = Some(Widget1.image)
        /\ ~Exists(result[c].path)

====
